---- MODULE Spec2Model ----
(***************************************************************************)
(* Model of netclop.networkensemble.NetworkEnsemble: the object's fields   *)
(* (nets, cfg, bootstraps, partitions, cores, the cached nodes property),  *)
(* one action per public method or property read, and history variables   *)
(* recording what the last call did (result, exception, collaborator      *)
(* invocations, generator seedings).                                       *)
(***************************************************************************)
EXTENDS Integers, Sequences, FiniteSets

(* ---------------------------------------------------------------------- *)
(* Bounds                                                                  *)
(* ---------------------------------------------------------------------- *)
MaxNets == 2          \* longest source-network sequence given to __init__
MaxBootstraps == 2    \* largest cfg.num_bootstraps

\* the seeds given to the configuration
Seeds == {0, 1}

(* ---------------------------------------------------------------------- *)
(* Optional values (Python's None against a present value)                 *)
(* ---------------------------------------------------------------------- *)
None == [tag |-> "None"]
Some(v) == [tag |-> "Some", val |-> v]

(* ---------------------------------------------------------------------- *)
(* Networks: a node set and a sequence of directed edges, each edge with   *)
(* an attribute dictionary (a function whose domain is the set of keys).   *)
(* ---------------------------------------------------------------------- *)
Edge(u, v, attrs) == [u |-> u, v |-> v, attrs |-> attrs]

\* a chain 1->2->3 of weighted edges
NetA == [nodes |-> {1, 2, 3},
         edges |-> << Edge(1, 2, [weight |-> 2, tag |-> 7]),
                      Edge(2, 3, [weight |-> 1, tag |-> 8]) >>]
\* a zero-weight edge, a weighted edge and an edge without a weight attribute
NetB == [nodes |-> {2, 3},
         edges |-> << Edge(2, 3, [weight |-> 0, tag |-> 7]),
                      Edge(3, 3, [tag |-> 9]),
                      Edge(3, 2, [weight |-> 1, tag |-> 8]) >>]
\* the only edge carries no weight attribute
NetD == [nodes |-> {1, 3},
         edges |-> << Edge(1, 3, [tag |-> 7]) >>]
Networks == {NetA, NetB, NetD}

RECURSIVE SeqsUpTo(_, _)
SeqsUpTo(S, n) ==
    IF n = 0 THEN { << >> }
    ELSE LET shorter == SeqsUpTo(S, n - 1)
         IN  shorter \cup { Append(s, x) : s \in { t \in shorter : Len(t) = n - 1 }, x \in S }

Range(s) == { s[i] : i \in DOMAIN s }

SetMin(S) == CHOOSE m \in S : \A x \in S : m <= x

VARIABLES
    nets,          \* self.nets
    cfg,           \* self.cfg (seed, num_bootstraps)
    bootstraps,    \* self.bootstraps
    partitions,    \* self.partitions
    cores,         \* self.cores
    nodes_cache,   \* the cached_property slot of nodes
    lastOp,        \* the call made last
    lastErr,       \* the exception it raised ("none" when it returned)
    lastRet,       \* the value it returned
    lastNet,       \* the network it handed to bootstrap
    imCalls,       \* the networks handed to the detection procedure by it
    scCalls,       \* collaborator steps run by it
    rngSeeds,      \* the seeds of the generators it created
    numDraws,      \* the number of Poisson draws it made
    bootNet,       \* the network of the latest successful bootstrap
    firstPartitions, \* partitions after the first completed partition()
    again,         \* the call follows a completed partition()
    rerun,         \* it resampled the network the stored replicates came from
    scOut,         \* what the clustering collaborator's cores held after its run
    nets0,         \* the source networks as given to __init__
    earlierRead    \* what the read of unstable_nodes made just before a sigclu() call returned

vars == << nets, cfg, bootstraps, partitions, cores, nodes_cache, lastOp,
           lastErr, lastRet, lastNet, imCalls, scCalls, rngSeeds, numDraws,
           bootNet, firstPartitions, again, rerun, scOut, nets0, earlierRead >>

(* ---------------------------------------------------------------------- *)
(* netutils.flatten_partition: the union of the node sets of a partition   *)
(* ---------------------------------------------------------------------- *)
flatten_partition(partition) == UNION Range(partition)

(* ---------------------------------------------------------------------- *)
(* The nodes property: the union of the node sets of the source networks   *)
(* ---------------------------------------------------------------------- *)
nodes_first_net_only(ns) == IF Len(ns) = 0 THEN {} ELSE ns[1].nodes

nodes_union(ns) == UNION { ns[i].nodes : i \in DOMAIN ns }

\* reading self.nodes: the cached value when there is one
nodes == IF nodes_cache = None THEN nodes_union(nets) ELSE nodes_cache.val

(* ---------------------------------------------------------------------- *)
(* The unstable_nodes property                                             *)
(* ---------------------------------------------------------------------- *)
unstable_nodes_empty_default ==
    IF cores = None
    THEN [err |-> "none", ret |-> Some({})]
    ELSE [err |-> "none", ret |-> Some(nodes \ flatten_partition(cores.val))]

unstable_nodes_cached ==
    IF cores = None
    THEN [err |-> "MissingResultError", ret |-> None]
    ELSE IF earlierRead # None
    THEN [err |-> "none", ret |-> earlierRead]
    ELSE [err |-> "none", ret |-> Some(nodes \ flatten_partition(cores.val))]

unstable_nodes ==
    IF cores = None
    THEN [err |-> "MissingResultError", ret |-> None]
    ELSE [err |-> "none", ret |-> Some(nodes \ flatten_partition(cores.val))]

(* ---------------------------------------------------------------------- *)
(* is_ensemble and is_bootstrapped                                         *)
(* ---------------------------------------------------------------------- *)
is_ensemble_more_than_two == Len(nets) > 2

is_ensemble == Len(nets) > 1

\* len(None) raises TypeError
is_bootstrapped ==
    IF bootstraps = None
    THEN [err |-> "TypeError", ret |-> None]
    ELSE [err |-> "none", ret |-> Some(Len(bootstraps.val) = cfg.num_bootstraps)]

(* ---------------------------------------------------------------------- *)
(* im_partition: the detection procedure and the regrouping of its         *)
(* (name, module_id) table into a list of node sets                        *)
(* ---------------------------------------------------------------------- *)
\* add_networkx_graph: an edge without the weight attribute counts as 1
LinkWeight(e) == IF "weight" \in DOMAIN e.attrs THEN e.attrs.weight ELSE 1

\* the pairs of nodes joined by a link of positive weight
Links(net) ==
    { {net.edges[p].u, net.edges[p].v} :
        p \in { q \in DOMAIN net.edges : LinkWeight(net.edges[q]) > 0 } }

RECURSIVE FlowClosure(_, _)
FlowClosure(links, S) ==
    LET T == S \cup UNION { l \in links : l \cap S # {} }
    IN  IF T = S THEN S ELSE FlowClosure(links, T)

\* The module label the detection procedure gives a node. Infomap is an
\* external optimiser; it is represented by a deterministic function of the
\* network and the seed: nodes joined by positive flow share a label, and
\* the value of the label (not the grouping) depends on the seed.
module_id(links, seed, n) == SetMin(FlowClosure(links, {n})) + seed

\* groupby("module_id")["name"].apply(set).tolist(): one set per label, in
\* ascending label order; table holds the (name, module_id) rows
RECURSIVE GroupsInOrder(_, _)
GroupsInOrder(table, labels) ==
    IF labels = {} THEN << >>
    ELSE LET m == SetMin(labels)
         IN  << { row[1] : row \in { r \in table : r[2] = m } } >>
             \o GroupsInOrder(table, labels \ {m})

im_partition_overlapping(net) ==
    LET links == Links(net)
        table == { << n, module_id(links, cfg.seed, n) >> : n \in net.nodes }
        labels == { row[2] : row \in table }
    IN  GroupsInOrder(table \cup { << n, SetMin(labels) >> : n \in net.nodes }, labels)

im_partition(net) ==
    LET links == Links(net)
        table == { << n, module_id(links, cfg.seed, n) >> : n \in net.nodes }
    IN  GroupsInOrder(table, { row[2] : row \in table })

(* ---------------------------------------------------------------------- *)
(* bootstrap: Poisson resampling of the edge weights                       *)
(* ---------------------------------------------------------------------- *)
RngMod == 16

\* the positions of the edges that carry a weight, in edge order
\* (the keys of nx.get_edge_attributes(net, 'weight'))
RECURSIVE WeightedPositions(_, _)
WeightedPositions(net, p) ==
    IF p > Len(net.edges) THEN << >>
    ELSE (IF "weight" \in DOMAIN net.edges[p].attrs THEN << p >> ELSE << >>)
         \o WeightedPositions(net, p + 1)

default_rng_carried_over(seed) ==
    IF bootstraps = None THEN seed % RngMod ELSE (seed + 1) % RngMod

\* np.random.default_rng(seed): the generator's state after seeding
default_rng(seed) == seed % RngMod

\* the generator's state after one draw
RngStep(s) == (5 * s + 3) % RngMod

RECURSIVE RngAfter(_, _)
RngAfter(s, k) == IF k = 0 THEN s ELSE RngAfter(RngStep(s), k - 1)

\* one Poisson(lam) variate read off the generator state (numpy's generator
\* is represented by a small congruential one); Poisson(0) is 0
Poisson(lam, s) == IF lam = 0 THEN 0 ELSE s % (2 * lam + 1)

\* rng.poisson(lam=weights.reshape(1, -1), size=(B, num_edges)): the matrix
\* is filled row by row from the one generator; pos are the positions of the
\* weighted edges
new_weights_shifted(net, pos, seed, i, j) ==
    LET num_edges == Len(pos)
        k == (i - 1) * num_edges + j
    IN  Poisson(net.edges[pos[j]].attrs.weight + 1, RngAfter(default_rng(seed), k))

new_weights(net, pos, seed, i, j) ==
    LET num_edges == Len(pos)
        k == (i - 1) * num_edges + j
    IN  Poisson(net.edges[pos[j]].attrs.weight, RngAfter(default_rng(seed), k))

set_edge_attributes_replace(attrs, w) == [weight |-> w]

\* nx.set_edge_attributes with {"weight": w}: the key is added or
\* overwritten, the edge's other attributes are kept
set_edge_attributes(attrs, w) ==
    [k \in DOMAIN attrs \cup {"weight"} |-> IF k = "weight" THEN w ELSE attrs[k]]

\* the i-th replicate: a copy of net with the weighted edges re-weighted
replicate(net, pos, seed, i) ==
    [net EXCEPT !.edges =
            [p \in DOMAIN net.edges |->
                IF \E j \in DOMAIN pos : pos[j] = p
                THEN LET j == CHOOSE j \in DOMAIN pos : pos[j] = p
                     IN  [net.edges[p] EXCEPT
                            !.attrs = set_edge_attributes(@, new_weights(net, pos, seed, i, j))]
                ELSE net.edges[p]]]

source_after_aliased(net, reps) == IF reps = << >> THEN net ELSE reps[Len(reps)]

\* bootstrap = net.copy(): the resampled weights are written to the copies
\* reps, and the network handed in is afterwards what it was
source_after(net, reps) == net

\* range(self.cfg.num_bootstraps)
num_replicates == cfg.num_bootstraps

bootstrap_clearing(net) ==
    LET pos == WeightedPositions(net, 1)
        num_edges == Len(pos)
    IN  IF num_edges = 0
        THEN [err |-> "ValueError", bootstraps |-> None,
              rngSeeds |-> << >>, numDraws |-> 0]
        ELSE [err |-> "none",
              bootstraps |-> Some([i \in 1..num_replicates |-> replicate(net, pos, cfg.seed, i)]),
              rngSeeds |-> << cfg.seed >>,
              numDraws |-> cfg.num_bootstraps * num_edges]

\* bootstrap(net): unpacking zip(*{}.items()) into two names raises
\* ValueError when no edge carries a weight
bootstrap(net) ==
    LET pos == WeightedPositions(net, 1)
        num_edges == Len(pos)
    IN  IF num_edges = 0
        THEN [err |-> "ValueError", bootstraps |-> bootstraps,
              rngSeeds |-> << >>, numDraws |-> 0]
        ELSE [err |-> "none",
              bootstraps |-> Some([i \in 1..num_replicates |-> replicate(net, pos, cfg.seed, i)]),
              rngSeeds |-> << cfg.seed >>,
              numDraws |-> cfg.num_bootstraps * num_edges]

(* ---------------------------------------------------------------------- *)
(* partition                                                               *)
(* ---------------------------------------------------------------------- *)
assign_partitions_append(new) ==
    IF partitions = None THEN Some(new) ELSE Some(partitions.val \o new)

\* self.partitions = [...]: the new list replaces the stored one
assign_partitions(new) == Some(new)

members_source_only(boot) == << nets[1] >>

\* the networks the second branch partitions: self.bootstraps
members_of_bootstraps(boot) == boot.val

partition_members_partial(members, boot, net, seeds, draws, failAt) ==
    IF failAt \in 1..Len(members)
    THEN [err |-> "CollaboratorError", bootstraps |-> boot,
          partitions |-> Some([i \in 1..(failAt - 1) |-> im_partition(members[i])]),
          net |-> net, imCalls |-> members, rngSeeds |-> seeds, numDraws |-> draws]
    ELSE [err |-> "none", bootstraps |-> boot, net |-> net,
          partitions |-> assign_partitions([i \in 1..Len(members) |-> im_partition(members[i])]),
          imCalls |-> members, rngSeeds |-> seeds, numDraws |-> draws]

partition_members_clearing(members, boot, net, seeds, draws, failAt) ==
    IF failAt \in 1..Len(members)
    THEN [err |-> "CollaboratorError", bootstraps |-> boot, partitions |-> None,
          net |-> net, imCalls |-> SubSeq(members, 1, failAt), rngSeeds |-> seeds, numDraws |-> draws]
    ELSE [err |-> "none", bootstraps |-> boot, net |-> net,
          partitions |-> assign_partitions([i \in 1..Len(members) |-> im_partition(members[i])]),
          imCalls |-> members, rngSeeds |-> seeds, numDraws |-> draws]

\* the list comprehension over members; the detection procedure raises on
\* its failAt-th invocation (0: it never raises)
partition_members(members, boot, net, seeds, draws, failAt) ==
    IF failAt \in 1..Len(members)
    THEN [err |-> "CollaboratorError", bootstraps |-> boot, partitions |-> partitions,
          net |-> net, imCalls |-> SubSeq(members, 1, failAt), rngSeeds |-> seeds, numDraws |-> draws]
    ELSE [err |-> "none", bootstraps |-> boot, net |-> net,
          partitions |-> assign_partitions([i \in 1..Len(members) |-> im_partition(members[i])]),
          imCalls |-> members, rngSeeds |-> seeds, numDraws |-> draws]

cores_invalidated == None

\* partition() does not assign self.cores: the stored cores stay
cores_after_partition == cores

partition(failAt) ==
    IF is_ensemble
    THEN partition_members(nets, bootstraps, None, << >>, 0, failAt)
    ELSE IF Len(nets) = 0
    THEN [err |-> "IndexError", bootstraps |-> bootstraps, partitions |-> partitions,
          net |-> None, imCalls |-> << >>, rngSeeds |-> << >>, numDraws |-> 0]
    ELSE LET b == bootstrap(nets[1])
         IN  IF b.err # "none"
             THEN [err |-> b.err, bootstraps |-> bootstraps, partitions |-> partitions,
                   net |-> Some(nets[1]), imCalls |-> << >>, rngSeeds |-> b.rngSeeds, numDraws |-> b.numDraws]
             ELSE partition_members(members_of_bootstraps(b.bootstraps), b.bootstraps,
                                    Some(nets[1]), b.rngSeeds, b.numDraws, failAt)

(* ---------------------------------------------------------------------- *)
(* sigclu                                                                  *)
(* ---------------------------------------------------------------------- *)
\* SigClu(...).cores: the collaborator returns no core, the modules of the
\* first partition of the ensemble it was given, or its first module alone
CoreOutputs(parts) ==
    { << >> }
    \cup { parts[i] : i \in DOMAIN parts \cap {1} }
    \cup { << parts[i][1] >> : i \in { k \in DOMAIN parts \cap {1} : parts[k] # << >> } }

sigclu_export_first(out, runFails, upset) ==
    IF partitions = None
    THEN [err |-> "MissingResultError", cores |-> cores, out |-> None, scCalls |-> << >>]
    ELSE IF runFails
    THEN [err |-> "CollaboratorError", cores |-> cores, out |-> None, scCalls |-> << "run" >>]
    ELSE IF upset = "fail"
    THEN [err |-> "CollaboratorError", cores |-> cores, out |-> Some(out),
          scCalls |-> << "run", "upset" >>]
    ELSE [err |-> "none", cores |-> Some(out), out |-> Some(out),
          scCalls |-> IF upset = "absent" THEN << "run", "store" >>
                      ELSE << "run", "upset", "store" >>]

sigclu_unguarded(out, runFails, upset) ==
    IF runFails
    THEN [err |-> "CollaboratorError", cores |-> cores, out |-> None, scCalls |-> << "run" >>]
    ELSE [err |-> IF upset = "fail" THEN "CollaboratorError" ELSE "none",
          cores |-> Some(out),
          out |-> Some(out),
          scCalls |-> IF upset = "absent" THEN << "run", "store" >>
                      ELSE << "run", "store", "upset" >>]

\* out: what sc.cores holds after sc.run(); runFails: sc.run() raises;
\* upset: "absent" (upset_config is None), "ok" or "fail" (sc.upset raises)
sigclu(out, runFails, upset) ==
    IF partitions = None
    THEN [err |-> "MissingResultError", cores |-> cores, out |-> None, scCalls |-> << >>]
    ELSE IF runFails
    THEN [err |-> "CollaboratorError", cores |-> cores, out |-> None, scCalls |-> << "run" >>]
    ELSE [err |-> IF upset = "fail" THEN "CollaboratorError" ELSE "none",
          cores |-> Some(out),
          out |-> Some(out),
          scCalls |-> IF upset = "absent" THEN << "run", "store" >>
                      ELSE << "run", "store", "upset" >>]

(* ---------------------------------------------------------------------- *)
(* The state machine                                                       *)
(* ---------------------------------------------------------------------- *)
\* what every call records about itself
Observe(op, err, ret, net, ims, scs, out, seeds, draws) ==
    /\ scOut' = out
    /\ nets0' = nets0
    /\ again' = (firstPartitions # None)
    /\ rerun' = (seeds # << >> /\ net = bootNet)
    /\ lastOp' = op
    /\ lastErr' = err
    /\ lastRet' = ret
    /\ lastNet' = net
    /\ imCalls' = ims
    /\ scCalls' = scs
    /\ rngSeeds' = seeds
    /\ numDraws' = draws

\* NetworkEnsemble(net, seed=..., num_bootstraps=...)
Init ==
    /\ nets \in SeqsUpTo(Networks, MaxNets)
    /\ cfg \in [seed : Seeds, num_bootstraps : 0..MaxBootstraps]
    /\ bootstraps = None
    /\ partitions = None
    /\ cores = None
    /\ nodes_cache = None
    /\ lastOp = "__init__"
    /\ lastErr = "none"
    /\ lastRet = None
    /\ lastNet = None
    /\ imCalls = << >>
    /\ scCalls = << >>
    /\ rngSeeds = << >>
    /\ numDraws = 0
    /\ bootNet = None
    /\ firstPartitions = None
    /\ again = FALSE
    /\ rerun = FALSE
    /\ scOut = None
    /\ nets0 = nets
    /\ earlierRead = None

ReadNodes ==
    /\ nodes_cache' = Some(nodes)
    /\ Observe("nodes", "none", Some(nodes), None, << >>, << >>, None, << >>, 0)
    /\ UNCHANGED << nets, cfg, bootstraps, partitions, cores, bootNet,
                    firstPartitions, earlierRead >>

ReadUnstableNodes ==
    LET r == unstable_nodes
    IN  /\ nodes_cache' = IF cores = None THEN nodes_cache ELSE Some(nodes)
        /\ Observe("unstable_nodes", r.err, r.ret, None, << >>, << >>, None, << >>, 0)
        /\ UNCHANGED << nets, cfg, bootstraps, partitions, cores, bootNet,
                        firstPartitions, earlierRead >>

IsEnsemble ==
    /\ Observe("is_ensemble", "none", Some(is_ensemble), None, << >>, << >>, None, << >>, 0)
    /\ UNCHANGED << nets, cfg, bootstraps, partitions, cores, nodes_cache, bootNet,
                    firstPartitions, earlierRead >>

IsBootstrapped ==
    LET r == is_bootstrapped
    IN  /\ Observe("is_bootstrapped", r.err, r.ret, None, << >>, << >>, None, << >>, 0)
        /\ UNCHANGED << nets, cfg, bootstraps, partitions, cores, nodes_cache, bootNet,
                        firstPartitions, earlierRead >>

Partition ==
    /\ \E failAt \in 0..(IF is_ensemble THEN Len(nets) ELSE cfg.num_bootstraps) :
        LET r == partition(failAt)
        IN  /\ bootstraps' = r.bootstraps
            /\ partitions' = r.partitions
            /\ bootNet' = IF r.rngSeeds # << >> THEN r.net ELSE bootNet
            /\ firstPartitions' = IF r.err = "none" /\ firstPartitions = None
                                  THEN r.partitions ELSE firstPartitions
            /\ nets' = IF r.rngSeeds # << >>
                       THEN [nets EXCEPT ![1] = source_after(@, r.bootstraps.val)]
                       ELSE nets
            /\ Observe("partition", r.err, None, r.net, r.imCalls, << >>, None, r.rngSeeds, r.numDraws)
    /\ cores' = cores_after_partition
    /\ UNCHANGED << cfg, nodes_cache, earlierRead >>

\* bootstrap(net) called by the caller, on any network
Bootstrap ==
    /\ \E net \in Networks :
        LET r == bootstrap(net)
        IN  /\ bootstraps' = r.bootstraps
            /\ bootNet' = IF r.err = "none" THEN Some(net) ELSE bootNet
            /\ Observe("bootstrap", r.err, None, Some(net), << >>, << >>, None, r.rngSeeds, r.numDraws)
    /\ UNCHANGED << nets, cfg, partitions, cores, nodes_cache, firstPartitions, earlierRead >>

Sigclu ==
    /\ \E how \in {"runFails", "absent", "ok", "fail"} :
       \E out \in IF partitions = None \/ how = "runFails" THEN { << >> }
                  ELSE CoreOutputs(partitions.val) :
        LET r == sigclu(out, how = "runFails", IF how = "runFails" THEN "absent" ELSE how)
        IN  /\ cores' = r.cores
            /\ Observe("sigclu", r.err, None, None, << >>, r.scCalls, r.out, << >>, 0)
    /\ earlierRead' = IF lastOp = "unstable_nodes" /\ lastErr = "none" THEN lastRet ELSE earlierRead
    /\ UNCHANGED << nets, cfg, bootstraps, partitions, nodes_cache, bootNet,
                    firstPartitions >>

Next ==
    \/ ReadNodes
    \/ ReadUnstableNodes
    \/ IsEnsemble
    \/ IsBootstrapped
    \/ Partition
    \/ Bootstrap
    \/ Sigclu

Spec == Init /\ [][Next]_vars

(* ---------------------------------------------------------------------- *)
(* Properties                                                              *)
(* ---------------------------------------------------------------------- *)
HasWeightedEdge(net) == WeightedPositions(net, 1) # << >>

\* the last call ran bootstrap up to the creation of its generator
Resampled == rngSeeds # << >>

\* C1: reading unstable_nodes while cores is absent raises
\* MissingResultError, returns no set, invokes neither the detection
\* procedure nor the clustering collaborator, and leaves bootstraps,
\* partitions and cores as they were.
C1_UnstableNodesBeforeCoresRaises ==
    [][ (lastOp' = "unstable_nodes" /\ cores = None)
        => /\ lastErr' = "MissingResultError"
           /\ lastRet' = None
           /\ imCalls' = << >>
           /\ scCalls' = << >>
           /\ rngSeeds' = << >>
           /\ UNCHANGED << bootstraps, partitions, cores >> ]_vars

C1_Witness ==
    /\ lastOp = "unstable_nodes"
    /\ cores = None
    /\ partitions # None

\* C2: sigclu() without a partition ensemble raises MissingResultError
\* before the collaborator is invoked and changes no result; with a
\* partition ensemble the collaborator is run, MissingResultError is not
\* raised, and a call that returns has populated cores.
C2_SigcluNeedsPartitions ==
    [][ lastOp' = "sigclu"
        => IF partitions = None
           THEN /\ lastErr' = "MissingResultError"
                /\ scCalls' = << >>
                /\ UNCHANGED << bootstraps, partitions, cores >>
           ELSE /\ lastErr' # "MissingResultError"
                /\ scCalls' # << >>
                /\ scCalls'[1] = "run"
                /\ (lastErr' = "none" => cores' # None) ]_vars

C2_Witness ==
    /\ lastOp = "sigclu"
    /\ lastErr = "MissingResultError"
    /\ partitions = None
    /\ bootstraps # None

C2_WitnessSuccess ==
    /\ lastOp = "sigclu"
    /\ lastErr = "none"
    /\ cores # None

\* C3: is_bootstrapped() returns false, without raising, whenever
\* bootstrapping has not run (bootstraps is absent).
C3_IsBootstrappedFalseBeforeBootstrap ==
    (lastOp = "is_bootstrapped" /\ bootstraps = None)
        => (lastErr = "none" /\ lastRet = Some(FALSE))

\* C4: on a single source network, a completed partition() leaves
\* is_ensemble() false, is_bootstrapped() true, exactly num_bootstraps
\* replicates and as many partitions, the i-th partition being the
\* detection result of the i-th replicate.
C4_SingleNetworkBootstrapBranch ==
    (Len(nets) = 1 /\ lastOp = "partition" /\ lastErr = "none")
        => /\ ~is_ensemble
           /\ bootstraps # None
           /\ partitions # None
           /\ is_bootstrapped = [err |-> "none", ret |-> Some(TRUE)]
           /\ Len(bootstraps.val) = cfg.num_bootstraps
           /\ Len(partitions.val) = cfg.num_bootstraps
           /\ imCalls = bootstraps.val
           /\ \A i \in 1..Len(partitions.val) :
                  partitions.val[i] = im_partition(bootstraps.val[i])

C4_Witness ==
    /\ Len(nets) = 1
    /\ lastOp = "partition"
    /\ lastErr = "none"
    /\ cfg.num_bootstraps = 2
    /\ Len(partitions.val) = 2

\* C5: on n > 1 source networks is_ensemble() is true, a completed
\* partition() has invoked the detection procedure once per source network
\* in order and stored n partitions, and no partition() call, completed or
\* not, resamples or writes bootstraps (absent replicates stay absent).
C5_EnsembleBranch ==
    [][ Len(nets) > 1
        => /\ is_ensemble
           /\ (lastOp' = "is_ensemble" => lastRet' = Some(TRUE))
           /\ (lastOp' = "partition"
                 => /\ rngSeeds' = << >>
                    /\ lastNet' = None
                    /\ bootstraps' = bootstraps)
           /\ (lastOp' = "partition" /\ lastErr' = "none")
                => /\ imCalls' = nets
                   /\ partitions' # None
                   /\ Len(partitions'.val) = Len(nets)
                   /\ \A i \in 1..Len(nets) : partitions'.val[i] = im_partition(nets[i]) ]_vars

C5_Witness ==
    /\ Len(nets) = 2
    /\ nets[1] # nets[2]
    /\ lastOp = "partition"
    /\ lastErr = "none"
    /\ again
    /\ bootstraps = None

\* C6: once partition() has completed, however often it completes again,
\* partitions has one entry per ensemble member (n source networks, or
\* num_bootstraps replicates) and equals what the first completed call stored.
C6_PartitionOverwrites ==
    firstPartitions # None
        => /\ partitions = firstPartitions
           /\ Len(partitions.val) = IF Len(nets) > 1 THEN Len(nets) ELSE cfg.num_bootstraps

C6_Witness ==
    /\ lastOp = "partition"
    /\ lastErr = "none"
    /\ again
    /\ Len(partitions.val) = 2

\* C7: bootstrap(net) on a network with a weighted edge stores exactly
\* num_bootstraps replicates, each with the nodes and the edges of net and
\* with every edge attribute other than weight as in net.
C7_ReplicatesKeepTopology ==
    (lastNet # None /\ HasWeightedEdge(lastNet.val))
        => /\ Resampled
           /\ bootstraps # None
           /\ Len(bootstraps.val) = cfg.num_bootstraps
           /\ \A i \in 1..Len(bootstraps.val) :
                LET r == bootstraps.val[i]
                    n == lastNet.val
                IN  /\ r.nodes = n.nodes
                    /\ Len(r.edges) = Len(n.edges)
                    /\ \A p \in 1..Len(n.edges) :
                         /\ r.edges[p].u = n.edges[p].u
                         /\ r.edges[p].v = n.edges[p].v
                         /\ DOMAIN r.edges[p].attrs = DOMAIN n.edges[p].attrs
                         /\ \A k \in DOMAIN n.edges[p].attrs \ {"weight"} :
                                r.edges[p].attrs[k] = n.edges[p].attrs[k]

C7_Witness ==
    /\ lastOp = "bootstrap"
    /\ lastNet = Some(NetB)
    /\ lastErr = "none"
    /\ Len(bootstraps.val) = 2
    /\ bootstraps.val[1] # NetB

\* C8: resampling a network without weighted edges fails with
\* ResamplingError and leaves bootstraps and partitions as they were.
C8_NoWeightedEdgesRaisesResamplingError ==
    [][ (lastNet' # None /\ ~HasWeightedEdge(lastNet'.val))
        => /\ lastErr' = "ResamplingError"
           /\ UNCHANGED << bootstraps, partitions >> ]_vars

\* C9: whenever cores exists, unstable_nodes is the node union of the
\* source networks minus the union of the core sets: it meets no core set,
\* and together with the core sets it covers every source network's nodes.
C9_UnstableNodesIsComplement ==
    (lastOp = "unstable_nodes" /\ cores # None)
        => /\ lastErr = "none"
           /\ lastRet # None
           /\ LET all == UNION { nets[i].nodes : i \in DOMAIN nets }
                  cored == UNION { cores.val[i] : i \in DOMAIN cores.val }
              IN  /\ lastRet.val = all \ cored
                  /\ \A i \in DOMAIN cores.val : lastRet.val \cap cores.val[i] = {}
                  /\ \A j \in DOMAIN nets : nets[j].nodes \subseteq lastRet.val \cup cored

C9_Witness ==
    /\ lastOp = "unstable_nodes"
    /\ cores # None
    /\ cores.val # << >>
    /\ lastRet.val # {}
    /\ Len(nets) = 2

\* C10: a bootstrap run creates one generator, seeded with cfg.seed, and
\* takes num_bootstraps x |weighted edges| draws from it; a run on the
\* network the stored replicates came from reproduces them exactly.
C10_ResamplingDeterministic ==
    [][ /\ Resampled' => /\ rngSeeds' = << cfg.seed >>
                         /\ numDraws' = cfg.num_bootstraps * Len(WeightedPositions(lastNet'.val, 1))
        /\ rerun' => bootstraps' = bootstraps ]_vars

C10_Witness ==
    /\ rerun
    /\ lastNet = Some(NetA)
    /\ cfg.num_bootstraps = 2
    /\ bootstraps.val[1] # bootstraps.val[2]
    /\ bootstraps.val[1] # NetA

\* C11: every stored partition consists of pairwise disjoint node sets, and
\* a completed partition() has put each node of a member network in exactly
\* one set of that member's partition, two nodes sharing a set exactly when
\* the detection procedure gave them the same module label.
C11_PartitionsAreDisjoint ==
    /\ partitions # None
         => \A i \in DOMAIN partitions.val :
              LET P == partitions.val[i]
              IN  \A a, b \in DOMAIN P : a # b => P[a] \cap P[b] = {}
    /\ (lastOp = "partition" /\ lastErr = "none")
         => \A i \in DOMAIN partitions.val :
              LET P == partitions.val[i]
                  net == imCalls[i]
                  links == Links(net)
              IN  /\ \A n \in net.nodes : Cardinality({ a \in DOMAIN P : n \in P[a] }) = 1
                  /\ \A n, m \in net.nodes :
                        (module_id(links, cfg.seed, n) = module_id(links, cfg.seed, m))
                            <=> (\E a \in DOMAIN P : {n, m} \subseteq P[a])

C11_Witness ==
    /\ lastOp = "partition"
    /\ lastErr = "none"
    /\ \E i \in DOMAIN partitions.val : Len(partitions.val[i]) = 2

\* C12: an edge whose weight is 0 in the resampled network is an edge of
\* every replicate, with weight 0.
C12_ZeroWeightEdgesStayZero ==
    (lastNet # None /\ Resampled)
        => \A i \in DOMAIN bootstraps.val :
             \A p \in DOMAIN lastNet.val.edges :
                LET e == lastNet.val.edges[p]
                IN  ("weight" \in DOMAIN e.attrs /\ e.attrs.weight = 0)
                      => /\ p \in DOMAIN bootstraps.val[i].edges
                         /\ bootstraps.val[i].edges[p].u = e.u
                         /\ bootstraps.val[i].edges[p].v = e.v
                         /\ "weight" \in DOMAIN bootstraps.val[i].edges[p].attrs
                         /\ bootstraps.val[i].edges[p].attrs.weight = 0

C12_Witness ==
    /\ lastNet = Some(NetB)
    /\ Resampled
    /\ Len(bootstraps.val) = 2
    /\ bootstraps.val[2].edges[1].attrs.weight = 0

\* C13: in every reachable state, cores is present only if partitions is
\* present.
C13_CoresOnlyWithPartitions ==
    cores # None => partitions # None

C13_Witness ==
    /\ cores # None
    /\ partitions # None
    /\ lastOp = "partition"
    /\ lastErr = "CollaboratorError"

\* a result once populated is still populated after the step
StaysPopulated ==
    /\ bootstraps # None => bootstraps' # None
    /\ partitions # None => partitions' # None
    /\ cores # None => cores' # None

IsNonEmptyPrefix(s, t) ==
    /\ Len(s) \in 1..Len(t)
    /\ s = SubSeq(t, 1, Len(s))

\* C15: when the detection procedure raises on a member, partition() ends
\* with that error, the members after the failing one are not partitioned,
\* and partitions holds what it held before the call.
C15_DetectionFailureAbortsPartition ==
    [][ (lastOp' = "partition" /\ lastErr' = "CollaboratorError") =>
            /\ partitions' = partitions
            /\ IsNonEmptyPrefix(imCalls', IF Len(nets) >= 2 THEN nets ELSE bootstraps'.val) ]_vars

C15_Witness ==
    /\ lastOp = "partition"
    /\ lastErr = "CollaboratorError"
    /\ Len(nets) = 2
    /\ Len(imCalls) = 1
    /\ partitions # None

\* C16: a read of unstable_nodes that follows a sigclu() call is computed
\* from the cores stored now: it is the node union minus the present cores,
\* whatever the read made before that sigclu() call returned.
C16_UnstableNodesRecomputed ==
    (lastOp = "unstable_nodes" /\ lastErr = "none" /\ earlierRead # None)
        => /\ cores # None
           /\ lastRet = Some(nodes_union(nets) \ UNION { cores.val[i] : i \in DOMAIN cores.val })

C16_Witness ==
    /\ lastOp = "unstable_nodes"
    /\ lastErr = "none"
    /\ earlierRead # None
    /\ lastRet # earlierRead
    /\ lastRet.val # {}

\* C17: whenever the collaborator's run in sigclu() produced cores, the
\* stored cores are that output, with or without export options; the export
\* step comes after the store, and cores are the same whether the export was
\* skipped, ran, or raised.
C17_ExportDoesNotAlterCores ==
    (lastOp = "sigclu" /\ scOut # None)
        => /\ cores = scOut
           /\ scCalls \in { << "run", "store" >>, << "run", "store", "upset" >> }
           /\ lastErr \in {"none", "CollaboratorError"}
           /\ lastErr = "CollaboratorError" => scCalls = << "run", "store", "upset" >>

C17_Witness ==
    /\ lastOp = "sigclu"
    /\ lastErr = "CollaboratorError"
    /\ scCalls = << "run", "store", "upset" >>
    /\ scOut # None
    /\ scOut.val # << >>
    /\ cores = scOut

\* C18: on a single-network object every resampling partition() leaves
\* exactly num_bootstraps replicates, leaves the source network as it was at
\* construction, and stores the replicates that resampling the original
\* network yields, the same at every call.
C18_BootstrapRegeneratesFromSource ==
    /\ nets = nets0
    /\ (lastOp = "partition" /\ Resampled) =>
          LET net == nets0[1]
              pos == WeightedPositions(net, 1)
          IN  /\ Len(nets0) = 1
              /\ bootstraps # None
              /\ Len(bootstraps.val) = cfg.num_bootstraps
              /\ \A i \in 1..cfg.num_bootstraps :
                    bootstraps.val[i] = replicate(net, pos, cfg.seed, i)

C18_Witness ==
    /\ lastOp = "partition"
    /\ Resampled
    /\ again
    /\ rerun
    /\ Len(bootstraps.val) = MaxBootstraps
    /\ bootstraps.val[1].edges # nets[1].edges
    /\ nets = nets0

\* C19: a partition() call, successful or not, leaves cores as they were,
\* so cores and unstable_nodes go on reflecting the earlier ensemble until
\* sigclu() runs again.
C19_PartitionLeavesCores ==
    [][ lastOp' = "partition" =>
            /\ cores' = cores
            /\ unstable_nodes' = unstable_nodes ]_vars

C19_Witness ==
    /\ lastOp = "partition"
    /\ lastErr = "none"
    /\ cores # None
    /\ cores.val # << >>
    /\ again

====
